---- MODULE Spec2Model ----
(***************************************************************************)
(* Grant compliance analytics: the relational store written by             *)
(* NonprofitDataGenerator (src/data/generate_nonprofit_data.py), its three *)
(* SQL views, and the read functions of the dashboard                      *)
(* (src/dashboard/streamlit_app.py).                                       *)
(*                                                                         *)
(* Numbers.  Amounts and metric values are REAL columns.  The model keeps   *)
(* the values of at most two decimals and counts them in hundredths:       *)
(* 45000.00 is 4500000 (the generator rounds what it writes to two         *)
(* decimals).  The column holds the double nearest to the value, which is  *)
(* the value itself exactly when it is a multiple of 1/4.  The sums,       *)
(* differences and quotients of the views are floating-point results that  *)
(* differ from the exact ones in their last bits only.  The model computes *)
(* the exact results and follows the last bits where they decide what a    *)
(* view returns: in ROUND(x, 2) of a quotient that lies exactly halfway    *)
(* between two hundredths, and in the comparison of current_value with     *)
(* the product target_value * 0.75 when the two are equal.                 *)
(* Percentages are kept in hundredths: 45.00 is 4500.                      *)
(*                                                                         *)
(* Time.  The clock counts DayParts-ths of a day (six seconds), and so do  *)
(* the day differences the views return: half a day is 7200.  A date is a  *)
(* day number; julianday(date) is midnight UTC of that day, i.e.           *)
(* DayParts * day.  The column days_overdue, which holds day differences   *)
(* and percentages, is counted in DayParts-ths throughout: 9.37 percent is *)
(* 937 * (DayParts / Hundredths).                                          *)
(*                                                                         *)
(* SQL NULL is the empty tuple and a non-NULL value v of a nullable column *)
(* is <<v>>.                                                               *)
(***************************************************************************)
EXTENDS Integers, Sequences, FiniteSets, TLC

VARIABLES
    grants,             \* table grants: set of rows (grant_id is the primary key)
    budget_categories,  \* table budget_categories: rows in insertion order
    reports,            \* table reports
    deliverables,       \* table deliverables
    outcome_metrics,    \* table outcome_metrics
    now,                \* the clock, UTC, in DayParts-ths of a day
    tz,                 \* local time minus UTC on this machine, same unit
    lowTies,            \* the quotients at a decimal tie that come out below it
    gen,                \* where the data generator's run stands
    result,             \* the data frame the last read function returned
    app,                \* the store files, and the dashboard process: connection, query cache
    seeded,             \* the draws the random seed fixes, and an earlier run's output
    expenses,           \* table expenses
    budget              \* the locals of generate_budget_categories

vars == <<grants, budget_categories, reports, deliverables, outcome_metrics,
          now, tz, lowTies, gen, result, app, seeded, expenses, budget>>

tables == <<grants, budget_categories, reports, deliverables, outcome_metrics,
            expenses>>

-----------------------------------------------------------------------------
(* Bounds of the model *)

MaxRows == 3        \* rows over all the item tables together
MaxMetrics == 2     \* rows of outcome_metrics
MaxNow == 14400     \* the clock stops advancing here (one day)
CacheHorizon == 72  \* the dashboard's clock stops advancing here (432 s)

(* ROUND(x, 2) keeps two decimals: values are counted in hundredths. *)
Hundredths == 100

(* The clock and the day differences count six seconds, the 14400th part  *)
(* of a day; a hundredth of a day is a whole number of them.               *)
DayParts == 14400
SecondsPerDay == 86400

GrantIds == {"GR001", "GR002"}
ClockSteps == {7200}    \* half a day
CacheSteps == {24}      \* 144 s, less than the ttl of the query cache

-----------------------------------------------------------------------------
(* SQL values *)

NULL == <<>>
Some(v) == <<v>>
IsNull(x) == x = NULL
Val(x) == x[1]

Abs(x) == IF x < 0 THEN -x ELSE x

(* A quotient a * n / d kept exact: a * n = q * d + r with 0 <= r < d.     *)
(* The product is built bit by bit so that no intermediate value leaves    *)
(* the range of the machine integers.                                      *)
RECURSIVE MulDivBits(_, _, _)
MulDivBits(a, n, d) ==
    IF n = 0 THEN [q |-> 0, r |-> 0]
    ELSE LET h == MulDivBits(a, n \div 2, d)
             t == 2 * h.r + (n % 2) * a
         IN  [q |-> 2 * h.q + t \div d, r |-> t % d]

MulDiv(a, n, d) ==
    LET h == MulDivBits(a % d, n, d)
    IN  [q |-> (a \div d) * n + h.q, r |-> h.r, d |-> d]

(* One more decimal digit of a quotient x.q + x.r / d. *)
DecimalStep(x, d) == [q |-> 10 * x.q + (10 * x.r) \div d, r |-> (10 * x.r) % d]

(* 100.0 * a / d in hundredths, exact, for a >= 0 and d > 0:               *)
(* 100 * Hundredths * a = q * d + r with 0 <= r < d.  The quotient is      *)
(* taken to four more decimal digits, so that no product leaves the range  *)
(* of the machine integers.                                                *)
Scaled(a, d) ==
    DecimalStep(DecimalStep(DecimalStep(DecimalStep(
        [q |-> a \div d, r |-> a % d], d), d), d), d)

(* 100.0 * a / d lies exactly halfway between two hundredths. *)
AtTie(a, d) == d # 0 /\ 2 * Scaled(Abs(a), Abs(d)).r = Abs(d)

(* The double that holds v hundredths is v / 100 itself: v / 100 is a      *)
(* multiple of 1/4.  Sums and differences of such values are exact too.    *)
ExactInBinary(v) == v % 25 = 0

(* A computation of a view that ends in ROUND(x, 2): the column and the    *)
(* stored values it starts from, in the order it takes them.               *)
Computation(column, operands) == <<column, operands>>

(* One of the stored values is not the double that holds it. *)
Inexact(computation) ==
    \E i \in DOMAIN computation[2] : ~ExactInBinary(computation[2][i])

(* ROUND(x, 2) of the floating-point quotient x, in hundredths, where the  *)
(* exact quotient is 100.0 * a / d (d # 0).  Off a tie the last bits of x  *)
(* do not matter: the result is the nearest hundredth.  At a tie, with     *)
(* operands exact in binary x is the double nearest to the tie, and ROUND  *)
(* takes it away from zero; with inexact operands x can lie below the tie  *)
(* (0.35 - 0.32 is 0.02999999999999997, and a SUM depends on the order in  *)
(* which the rows are added), and then ROUND goes toward zero: `low' says  *)
(* that this computation comes out below.                                  *)
RoundScaled(a, d, low) ==
    LET x == Scaled(Abs(a), Abs(d))
        q == IF 2 * x.r > Abs(d) \/ (2 * x.r = Abs(d) /\ ~low)
             THEN x.q + 1 ELSE x.q
    IN  IF (a < 0) # (d < 0) THEN -q ELSE q

(* ROUND(100.0 * n / d, 2) in hundredths; a division by zero is NULL in    *)
(* SQLite, and NULL operands give NULL.                                    *)
RoundPct(n, d, computation) ==
    IF IsNull(n) \/ IsNull(d) THEN NULL
    ELSE IF Val(d) = 0 THEN NULL
    ELSE Some(RoundScaled(Val(n), Val(d),
                          Inexact(computation) /\ computation \in lowTies))

(* julianday(date) and julianday('now'), in DayParts-ths of a day. *)
julianday(date) == DayParts * date

(* A value of two decimals in the unit of the column days_overdue. *)
InDayParts(v) ==
    IF IsNull(v) THEN NULL ELSE Some((DayParts \div Hundredths) * Val(v))

RECURSIVE SumSeq(_)
SumSeq(s) == IF s = <<>> THEN 0 ELSE Head(s) + SumSeq(Tail(s))

Injections(n) == {p \in [1..n -> 1..n] : \A i, j \in 1..n : p[i] = p[j] => i = j}

(* The orders in which the rows of s may be returned. *)
RowOrders(s) == {[i \in 1..Len(s) |-> s[p[i]]] : p \in Injections(Len(s))}

(* ORDER BY compares NULL as smaller than every value. *)
SqlLeq(a, b) == IsNull(a) \/ (~IsNull(b) /\ Val(a) <= Val(b))

-----------------------------------------------------------------------------
(* REAL values as binary64 doubles: 53 significant bits, most significant  *)
(* first, times a power of two.                                            *)

MantissaBits == 53

(* The value of a short run of bits. *)
RECURSIVE BitsValue(_)
BitsValue(bits) ==
    IF bits = <<>> THEN 0
    ELSE 2 * BitsValue(SubSeq(bits, 1, Len(bits) - 1)) + bits[Len(bits)]

(* The binary digits of n. *)
RECURSIVE Binary(_)
Binary(n) == IF n = 0 THEN <<>> ELSE Append(Binary(n \div 2), n % 2)

(* bits + 1 *)
RECURSIVE Increment(_)
Increment(bits) ==
    IF bits = <<>> THEN <<1>>
    ELSE IF bits[Len(bits)] = 0 THEN [bits EXCEPT ![Len(bits)] = 1]
    ELSE Append(Increment(SubSeq(bits, 1, Len(bits) - 1)), 0)

(* a + b for two runs of the same length, added from the last bit: sum is *)
(* the digits below position i and carry what they pass on.               *)
RECURSIVE AddFrom(_, _, _, _, _)
AddFrom(a, b, i, carry, sum) ==
    IF i = 0 THEN (IF carry = 1 THEN <<1>> \o sum ELSE sum)
    ELSE AddFrom(a, b, i - 1, (a[i] + b[i] + carry) \div 2,
                 <<(a[i] + b[i] + carry) % 2>> \o sum)

AddBits(a, b) == AddFrom(a, b, Len(a), 0, <<>>)

(* The double nearest to (bits + num / den) * 2^shift, for at least 53     *)
(* bits and 0 <= num < den: round to nearest, ties to even.                *)
RoundToNearestEven(bits, shift, num, den) ==
    LET k     == Len(bits) - MantissaBits
        head  == SubSeq(bits, 1, MantissaBits)
        tail  == BitsValue(SubSeq(bits, MantissaBits + 1, Len(bits)))
        twice == 2 * (tail * den + num)
        unit  == (2 ^ k) * den
        up    == twice > unit \/ (twice = unit /\ head[MantissaBits] = 1)
        m     == IF up THEN Increment(head) ELSE head
    IN  IF Len(m) > MantissaBits
        THEN [bits |-> SubSeq(m, 1, MantissaBits), shift |-> shift + k + 1]
        ELSE [bits |-> m, shift |-> shift + k]

(* The binary digits of bits + r / Hundredths, continued by long division  *)
(* to 53 significant bits and rounded.                                     *)
RECURSIVE Expand(_, _, _)
Expand(bits, r, shift) ==
    IF Len(bits) >= MantissaBits THEN RoundToNearestEven(bits, shift, r, Hundredths)
    ELSE Expand(IF bits = <<>> /\ 2 * r < Hundredths THEN <<>>
                ELSE Append(bits, (2 * r) \div Hundredths),
                (2 * r) % Hundredths, shift - 1)

(* The double a REAL column holds for v hundredths, v > 0. *)
Double(v) == Expand(Binary(v \div Hundredths), v % Hundredths, 0)

(* x * 0.75 in floating point: 0.75 is 3/4 exactly; 3 * bits is            *)
(* 2 * bits + bits, and the product is rounded to 53 bits.                 *)
TimesThreeQuarters(x) ==
    RoundToNearestEven(AddBits(Append(x.bits, 0), <<0>> \o x.bits),
                       x.shift - 2, 0, 1)

(* a < b for two runs of bits of the same length. *)
RECURSIVE BitsLess(_, _)
BitsLess(a, b) ==
    IF a = <<>> THEN FALSE
    ELSE IF Head(a) # Head(b) THEN Head(a) < Head(b)
    ELSE BitsLess(Tail(a), Tail(b))

(* x < y for two positive doubles. *)
DoubleLess(x, y) ==
    x.shift < y.shift \/ (x.shift = y.shift /\ BitsLess(x.bits, y.bits))

-----------------------------------------------------------------------------
(* v_grant_summary: grants LEFT JOIN budget_categories, GROUP BY grant_id *)

(* The budget_categories rows the join matches to grant g. *)
JoinedCategories(g) ==
    LET Match(bc) == bc.grant_id = g.grant_id
    IN  SelectSeq(budget_categories, Match)

(* SUM(bc.spent_amount) over the group of g: NULL when the LEFT JOIN       *)
(* matched no category (the group is one row of NULLs).                    *)
SumSpent(g) ==
    LET rows == JoinedCategories(g)
    IN  IF rows = <<>> THEN NULL
        ELSE Some(SumSeq([i \in 1..Len(rows) |-> rows[i].spent_amount]))

(* The spent_amount values that SUM adds for g, in the order of the table. *)
SpentAmounts(g) ==
    LET rows == JoinedCategories(g)
    IN  [i \in 1..Len(rows) |-> rows[i].spent_amount]

RemainingBudget(total_amount, total_spent) ==
    IF IsNull(total_spent) THEN NULL ELSE Some(total_amount - Val(total_spent))

(* ROUND(100.0 * SUM(bc.spent_amount) / g.total_amount, 2) *)
SpentPercentage(total_amount, spent_amounts) ==
    RoundPct(IF spent_amounts = <<>> THEN NULL ELSE Some(SumSeq(spent_amounts)),
             Some(total_amount),
             Computation("spent_percentage", <<total_amount>> \o spent_amounts))

(* A variant that counts the days since the end date. *)
DaysSinceEnd(end_date) == now - julianday(end_date)

DaysRemaining(end_date) == julianday(end_date) - now

GrantSummaryRow(g) ==
    [grant_id         |-> g.grant_id,
     total_amount     |-> g.total_amount,
     end_date         |-> g.end_date,
     total_spent      |-> SumSpent(g),
     remaining_budget |-> RemainingBudget(g.total_amount, SumSpent(g)),
     spent_percentage |-> SpentPercentage(g.total_amount, SpentAmounts(g)),
     days_remaining   |-> DaysRemaining(g.end_date)]

v_grant_summary == {GrantSummaryRow(g) : g \in grants}

(* SELECT * FROM v_grant_summary ORDER BY days_remaining: the orders the   *)
(* query may return (rows with equal keys come in any order).              *)
GrantSummaryOrdered ==
    {s \in [1..Cardinality(v_grant_summary) -> v_grant_summary] :
        /\ \A r \in v_grant_summary : \E i \in DOMAIN s : s[i] = r
        /\ \A i \in 1..(Len(s) - 1) : s[i].days_remaining <= s[i + 1].days_remaining}

-----------------------------------------------------------------------------
(* v_outcome_performance: outcome_metrics JOIN grants *)

(* A variant with the quotient turned over. *)
AchievementInverted(current_value, target_value) ==
    RoundPct(Some(target_value), Some(current_value),
             Computation("achievement_percentage", <<target_value, current_value>>))

(* ROUND(100.0 * om.current_value / om.target_value, 2) *)
AchievementPercentage(current_value, target_value) ==
    RoundPct(Some(current_value), Some(target_value),
             Computation("achievement_percentage", <<current_value, target_value>>))

(* om.current_value >= om.target_value * 0.75, for current < target.  When *)
(* current is not three quarters of target the two sides are further apart *)
(* than the product's rounding error and the exact comparison decides.     *)
(* When it is, the stored double of current is compared with the rounded   *)
(* product of the stored double of target and 0.75, which can be the next  *)
(* double above (75.20 * 0.75 is 56.400000000000006).                      *)
ReachesThreeQuarters(current_value, target_value) ==
    IF 4 * current_value # 3 * target_value
    THEN 4 * current_value > 3 * target_value
    ELSE ~DoubleLess(Double(current_value), TimesThreeQuarters(Double(target_value)))

(* CASE WHEN current >= target ... WHEN current >= target * 0.75 ... ELSE  *)
OutcomeStatus(current_value, target_value) ==
    IF current_value >= target_value THEN "On Track"
    ELSE IF ReachesThreeQuarters(current_value, target_value) THEN "Needs Attention"
    ELSE "At Risk"

HasGrant(grant_id) == \E g \in grants : g.grant_id = grant_id

OutcomeRow(om) ==
    [grant_id               |-> om.grant_id,
     metric_name            |-> om.metric_name,
     target_value           |-> om.target_value,
     current_value          |-> om.current_value,
     achievement_percentage |-> AchievementPercentage(om.current_value, om.target_value),
     status                 |-> OutcomeStatus(om.current_value, om.target_value)]

v_outcome_performance ==
    LET Joined(om) == HasGrant(om.grant_id)
        rows == SelectSeq(outcome_metrics, Joined)
    IN  [i \in 1..Len(rows) |-> OutcomeRow(rows[i])]

(* SELECT * FROM v_outcome_performance ORDER BY achievement_percentage DESC *)
OutcomePerformanceOrdered ==
    {s \in RowOrders(v_outcome_performance) :
        \A i \in 1..(Len(s) - 1) :
            SqlLeq(s[i + 1].achievement_percentage, s[i].achievement_percentage)}

-----------------------------------------------------------------------------
(* v_compliance_alerts: three SELECTs joined by UNION ALL *)

(* A variant with the operands of the difference exchanged. *)
DaysUntilDue(due_date) == julianday(due_date) - now

(* julianday('now') - julianday(due_date) *)
DaysOverdue(due_date) == now - julianday(due_date)

(* ROUND(100.0 * (spent - budgeted) / budgeted, 2) *)
PercentOver(spent_amount, budgeted_amount) ==
    RoundPct(Some(spent_amount - budgeted_amount), Some(budgeted_amount),
             Computation("days_overdue", <<spent_amount, budgeted_amount>>))

IsOverdue(item) == item.status = "Overdue"

IsOverspent(bc) == bc.spent_amount > bc.budgeted_amount

ReportAlert(r) ==
    [alert_type   |-> "Overdue Report",
     grant_id     |-> r.grant_id,
     item_name    |-> r.report_type,
     due_date     |-> Some(r.due_date),
     days_overdue |-> Some(DaysOverdue(r.due_date))]

DeliverableAlert(d) ==
    [alert_type   |-> "Overdue Deliverable",
     grant_id     |-> d.grant_id,
     item_name    |-> d.deliverable_name,
     due_date     |-> Some(d.due_date),
     days_overdue |-> Some(DaysOverdue(d.due_date))]

BudgetAlert(bc) ==
    [alert_type   |-> "Budget Overspent",
     grant_id     |-> bc.grant_id,
     item_name    |-> bc.category_name,
     due_date     |-> NULL,
     days_overdue |-> InDayParts(PercentOver(bc.spent_amount, bc.budgeted_amount))]

ReportAlerts ==
    LET rows == SelectSeq(reports, IsOverdue)
    IN  [i \in 1..Len(rows) |-> ReportAlert(rows[i])]

DeliverableAlerts ==
    LET rows == SelectSeq(deliverables, IsOverdue)
    IN  [i \in 1..Len(rows) |-> DeliverableAlert(rows[i])]

BudgetAlerts ==
    LET rows == SelectSeq(budget_categories, IsOverspent)
    IN  [i \in 1..Len(rows) |-> BudgetAlert(rows[i])]

UnionAll(a, b, c) == a \o b \o c

v_compliance_alerts == UnionAll(ReportAlerts, DeliverableAlerts, BudgetAlerts)

(* FROM v_compliance_alerts ca JOIN grants g ON ca.grant_id = g.grant_id   *)
(* (grant_name and funder_name, which the join adds, are not modelled).    *)
AlertsJoinGrants ==
    LET Joined(ca) == HasGrant(ca.grant_id)
    IN  SelectSeq(v_compliance_alerts, Joined)

(* int(x) of a difference of h DayParts-ths of a day: the whole days, cut  *)
(* off toward zero.                                                        *)
IntDays(h) == IF h >= 0 THEN h \div DayParts ELSE -((-h) \div DayParts)

(* show_overview, the second line of an alert:                             *)
(*   'Days Overdue: ' + str(int(alert['days_overdue']) if alert['due_date']*)
(*                          else 'Amount Over: ' + str(...) + '%')         *)
(* The conditional is the argument of str: every line starts with          *)
(* 'Days Overdue: ', followed by the whole days when due_date is there and *)
(* by 'Amount Over: ', the value and '%' when it is not.  The line is kept *)
(* as its labels, its number (NULL where the frame has None or nan) and    *)
(* its unit.                                                               *)
OverviewLine(alert) ==
    IF ~IsNull(alert.due_date)
    THEN [labels |-> <<"Days Overdue: ">>,
          number |-> Some(IntDays(Val(alert.days_overdue))),
          unit   |-> ""]
    ELSE [labels |-> <<"Days Overdue: ", "Amount Over: ">>,
          number |-> alert.days_overdue,
          unit   |-> "%"]

(* ... ORDER BY days_overdue DESC *)
ComplianceAlertsOrdered ==
    {s \in RowOrders(AlertsJoinGrants) :
        \A i \in 1..(Len(s) - 1) : SqlLeq(s[i + 1].days_overdue, s[i].days_overdue)}

-----------------------------------------------------------------------------
(* The store and the read functions as a state machine *)

(* No frame: no read function has returned since the state last changed.   *)
(* A frame carries the query, its rows, and where run_query had them from. *)
NoResult == [query |-> "none", rows |-> <<>>, served |-> "none"]

(* The generator is not running. *)
Idle == [pc |-> "idle", grant |-> 0, item |-> 0, count |-> 0]

(* A row of outcome_metrics. *)
MetricRow(id, name, target, current) ==
    [grant_id |-> id, metric_name |-> name,
     target_value |-> target, current_value |-> current]

(* The columns of the rows that the model reads. *)
GrantRow(id, amount, start, end, status, frequency, purpose) ==
    [grant_id |-> id, total_amount |-> amount, start_date |-> start,
     end_date |-> end, status |-> status, reporting_frequency |-> frequency,
     purpose |-> purpose]

DeliverableRow(id, name, due, status, completion) ==
    [grant_id |-> id, deliverable_name |-> name, due_date |-> due,
     status |-> status, completion_date |-> completion]

ReportRow(id, type, due, submission, status) ==
    [grant_id |-> id, report_type |-> type, due_date |-> due,
     submission_date |-> submission, status |-> status]

ItemRows == Len(budget_categories) + Len(reports) + Len(deliverables)

(* The dashboard process.  possible_paths of get_connection, in the order  *)
(* it tries them; a store file is named by its place in this list.         *)
PossiblePaths ==
    <<"script_dir/nonprofit_grants.db", "script_dir/../data/nonprofit_grants.db",
      "nonprofit_grants.db", "../data/nonprofit_grants.db">>

PathIndexes == DOMAIN PossiblePaths

(* NonprofitDataGenerator() writes nonprofit_grants.db in its directory. *)
DefaultStore == 3

(* The three queries of the read functions, the keys of the query cache. *)
Queries == {"v_grant_summary", "v_compliance_alerts", "v_outcome_performance"}

(* The tables and the views of the store, in the order in which            *)
(* create_tables and create_views create them.  Each CREATE statement is   *)
(* committed when it is executed (sqlite3 opens no transaction for it).    *)
TableNames ==
    <<"grants", "budget_categories", "expenses", "deliverables",
      "outcome_metrics", "participants", "reports", "staff_allocations">>

ViewNames == <<"v_grant_summary", "v_compliance_alerts", "v_outcome_performance">>

(* What a candidate path holds: no file, or a store with the first so many *)
(* tables and views of the two lists (none of them when sqlite3.connect    *)
(* alone made the file).                                                   *)
Absent == [exists |-> FALSE, tables |-> 0, views |-> 0]

Schema(tables_made, views_made) ==
    [exists |-> TRUE, tables |-> tables_made, views |-> views_made]

Empty == Schema(0, 0)

Complete == Schema(Len(TableNames), Len(ViewNames))

NoFiles == [k \in PathIndexes |-> Absent]

(* The store at this path has the view the query selects from. *)
HasView(file, query) == \E i \in 1..file.views : ViewNames[i] = query

(* The store the generator writes, at this stage, and no other file.  The  *)
(* rows of the model's tables are the rows of this store; a file at        *)
(* another candidate path is one that NonprofitDataGenerator(db_name) has  *)
(* made and not filled.                                                    *)
StoreAt(stage) == [NoFiles EXCEPT ![DefaultStore] = stage]

(* os.path.exists(db_path) for the candidates. *)
Existing(files) == {k \in PathIndexes : files[k].exists}

(* The tables exist in the generator's store: rows can be written. *)
HasTables == app.files[DefaultStore].tables = Len(TableNames)

(* A row of grants; grant_id is the PRIMARY KEY, so a second row with the  *)
(* same id is rejected.                                                    *)
InsertGrant(amounts, ends) ==
    /\ HasTables
    /\ \E id \in GrantIds, a \in amounts, e \in ends :
          /\ ~HasGrant(id)
          /\ grants' = grants \cup {GrantRow(id, a, 0, e, "Active", "Annual", "Healthcare Access")}
    /\ result' = NoResult
    /\ UNCHANGED <<budget_categories, reports, deliverables, outcome_metrics, now, tz, lowTies, gen, app, seeded, expenses, budget>>

(* A row of budget_categories.  FOREIGN KEY (grant_id) is declared but the *)
(* connection never turns foreign_keys on: the grant need not exist.       *)
InsertBudgetCategory(names, budgets, spents) ==
    /\ HasTables
    /\ ItemRows < MaxRows
    /\ \E id \in GrantIds, n \in names, b \in budgets, sp \in spents :
          budget_categories' = Append(budget_categories,
                [grant_id |-> id, category_name |-> n,
                 budgeted_amount |-> b, spent_amount |-> sp])
    /\ result' = NoResult
    /\ UNCHANGED <<grants, reports, deliverables, outcome_metrics, now, tz, lowTies, gen, app, seeded, expenses, budget>>

InsertReport(types, dues, statuses) ==
    /\ HasTables
    /\ ItemRows < MaxRows
    /\ \E id \in GrantIds, t \in types, d \in dues, st \in statuses :
          reports' = Append(reports, ReportRow(id, t, d, NULL, st))
    /\ result' = NoResult
    /\ UNCHANGED <<grants, budget_categories, deliverables, outcome_metrics, now, tz, lowTies, gen, app, seeded, expenses, budget>>

InsertDeliverable(names, dues, statuses) ==
    /\ HasTables
    /\ ItemRows < MaxRows
    /\ \E id \in GrantIds, n \in names, d \in dues, st \in statuses :
          deliverables' = Append(deliverables, DeliverableRow(id, n, d, st, NULL))
    /\ result' = NoResult
    /\ UNCHANGED <<grants, budget_categories, reports, outcome_metrics, now, tz, lowTies, gen, app, seeded, expenses, budget>>

InsertOutcomeMetric(names, targets, currents) ==
    /\ HasTables
    /\ Len(outcome_metrics) < MaxMetrics
    /\ \E id \in GrantIds, n \in names, t \in targets, c \in currents :
          outcome_metrics' = Append(outcome_metrics, MetricRow(id, n, t, c))
    /\ result' = NoResult
    /\ UNCHANGED <<grants, budget_categories, reports, deliverables, now, tz, lowTies, gen, app, seeded, expenses, budget>>

(* The process at its start: the store files, no connection, nothing       *)
(* cached.                                                                 *)
AppStart(files) ==
    [files |-> files, conn |-> NULL, cache |-> [q \in Queries |-> NULL]]

(* generate_budget_categories has not run. *)
NoBudget == [remaining |-> 0, amounts |-> <<>>]

(* No random seed is followed. *)
Unseeded == [draws |-> <<>>, first |-> NULL]

TtlSeconds == 300   \* @st.cache_data(ttl=300)

(* A variant in which no entry ever expires. *)
ExpiredNever(at, t) == FALSE

(* The seconds from `at` to t. *)
Seconds(at, t) == (t - at) * (SecondsPerDay \div DayParts)

(* An entry made at `at` has reached the ttl at time t. *)
Expired(at, t) == Seconds(at, t) >= TtlSeconds

(* A variant that takes the last candidate that exists. *)
FirstExistingFromEnd(exists) == CHOOSE k \in exists : \A j \in exists : j <= k

(* for db_path in possible_paths: if os.path.exists(db_path): the first    *)
(* candidate, in the list's order, that exists.                            *)
FirstExisting(exists) == CHOOSE k \in exists : \A j \in exists : k <= j

(* get_connection under @st.cache_resource: the connection made before, or *)
(* a connection to the first candidate that exists; NULL stands for the    *)
(* FileExistsError it raises when none exists (an exception is not cached).*)
get_connection ==
    IF ~IsNull(app.conn) THEN app.conn
    ELSE IF Existing(app.files) = {} THEN NULL
    ELSE Some(FirstExisting(Existing(app.files)))

(* pd.read_sql_query(query, conn): the frames the query can return. *)
read_sql_query(query) ==
    CASE query = "v_grant_summary" -> GrantSummaryOrdered
      [] query = "v_compliance_alerts" -> ComplianceAlertsOrdered
      [] query = "v_outcome_performance" -> OutcomePerformanceOrdered

(* A variant without the query cache. *)
CacheNever(query) == FALSE

(* The entry of the query cache for this query, if it has not expired. *)
CacheHit(query) ==
    /\ ~IsNull(app.cache[query])
    /\ ~Expired(Val(app.cache[query]).at, now)

(* The frame of a failed call: the exception reaches the page. *)
Failed == [query |-> "FileExistsError", rows |-> <<>>, served |-> "error"]

(* The query names a view that the connected file does not have: sqlite3   *)
(* raises 'no such table', which pandas passes on as a DatabaseError.      *)
NoSuchTable == [query |-> "DatabaseError", rows |-> <<>>, served |-> "error"]

(* run_query under @st.cache_data(ttl=300): the cached frame while its     *)
(* entry is younger than the ttl; otherwise the connection is taken (and   *)
(* kept by get_connection's cache), the query executed and its frame       *)
(* cached.  A call that raises caches no frame.                            *)
run_query(query) ==
    /\ IF CacheHit(query)
       THEN /\ result' = [query |-> query, rows |-> Val(app.cache[query]).rows,
                          served |-> "cache"]
            /\ UNCHANGED app
       ELSE IF IsNull(get_connection)
       THEN /\ result' = Failed
            /\ UNCHANGED app
       ELSE IF ~HasView(app.files[Val(get_connection)], query)
       THEN /\ result' = NoSuchTable
            /\ app' = [app EXCEPT !.conn = get_connection]
       ELSE \E s \in read_sql_query(query) :
            /\ result' = [query |-> query, rows |-> s, served |-> "store"]
            /\ app' = [app EXCEPT !.conn = get_connection,
                                  !.cache[query] = Some([rows |-> s, at |-> now])]
    /\ UNCHANGED <<tables, now, tz, lowTies, gen, seeded, budget>>

(* Time passes, by one of `steps' and not beyond `limit'; the frame a page *)
(* rendered from is gone by then, and the entries that have reached the    *)
(* ttl leave the query cache.                                              *)
Elapse(steps, limit) ==
    /\ now < limit
    /\ \E dt \in steps :
          /\ now' = now + dt
          /\ app' = [app EXCEPT !.cache =
                        [q \in Queries |->
                            IF IsNull(app.cache[q])
                                  \/ Expired(Val(app.cache[q]).at, now + dt)
                            THEN NULL ELSE app.cache[q]]]
    /\ result' = NoResult
    /\ UNCHANGED <<tables, tz, lowTies, gen, seeded, budget>>

(* Half a day passes. *)
Tick == Elapse(ClockSteps, MaxNow)

(* A few minutes pass while the dashboard is in use. *)
Wait == Elapse(CacheSteps, CacheHorizon)

load_grant_summary == run_query("v_grant_summary")

load_compliance_alerts == run_query("v_compliance_alerts")

load_outcome_performance == run_query("v_outcome_performance")

(* NonprofitDataGenerator(db_name) alone, at a candidate path that has no  *)
(* file: sqlite3.connect makes the file, an empty database.                *)
CreateStore ==
    /\ \E k \in PathIndexes :
          /\ app.files[k] = Absent
          /\ app' = [app EXCEPT !.files[k] = Empty]
    /\ UNCHANGED <<tables, now, tz, lowTies, gen, result, seeded, budget>>

(* After create_tables and create_views on a new store: every table exists *)
(* and is empty, and the three views are defined.  Of the computations     *)
(* `ties', which the rows to come can bring to a decimal tie with inexact  *)
(* operands, any may be one that comes out below its tie.                  *)
Init(ties) ==
    /\ grants = {}
    /\ budget_categories = <<>>
    /\ reports = <<>>
    /\ deliverables = <<>>
    /\ outcome_metrics = <<>>
    /\ now = 0
    /\ tz = 0
    /\ lowTies \in SUBSET ties
    /\ gen = Idle
    /\ result = NoResult
    /\ app = AppStart(StoreAt(Complete))
    /\ seeded = Unseeded
    /\ expenses = <<>>
    /\ budget = NoBudget

-----------------------------------------------------------------------------
(* Grant summary: grants and their budget categories *)

SummaryAmounts == {0, 448, 10000000}
SummaryEnds == {0, 1}
SummaryNames == {"Travel"}
SummaryBudgets == {5000000}
SummarySpents == {7, 4500000}

(* The sums of spent amounts that lie at a tie of spent_percentage, with   *)
(* an operand that is not exact in binary (0.07 + 0.07 of 4.48 is 3.125    *)
(* percent).                                                               *)
SummaryTies ==
    {c \in {Computation("spent_percentage", <<a>> \o sp) :
                a \in SummaryAmounts,
                sp \in UNION {[1..n -> SummarySpents] : n \in 1..MaxRows}} :
        AtTie(SumSeq(Tail(c[2])), Head(c[2])) /\ Inexact(c)}

NextSummary ==
    \/ InsertGrant(SummaryAmounts, SummaryEnds)
    \/ InsertBudgetCategory(SummaryNames, SummaryBudgets, SummarySpents)
    \/ Tick
    \/ load_grant_summary

SpecSummary == Init(SummaryTies) /\ [][NextSummary]_vars

-----------------------------------------------------------------------------
(* Compliance alerts: reports, deliverables and budget categories *)

AlertAmounts == {100000}
AlertEnds == {2}
AlertNames == {"Travel"}
AlertBudgets == {0, 32}
AlertSpents == {32, 35}
ReportTypes == {"Final Report"}
ReportStatuses == {"Overdue", "In Progress"}
DeliverableNames == {"Annual Evaluation"}
DeliverableStatuses == {"Overdue", "Late"}
ReportDues == {0}
DeliverableDues == {1}

(* The overspent categories whose percentage lies at a tie, with an        *)
(* operand that is not exact in binary (0.35 over 0.32 is 9.375 percent).  *)
AlertTies ==
    {c \in {Computation("days_overdue", <<sp, b>>) :
                sp \in AlertSpents, b \in AlertBudgets} :
        AtTie(c[2][1] - c[2][2], c[2][2]) /\ Inexact(c)}

NextAlerts ==
    \/ InsertGrant(AlertAmounts, AlertEnds)
    \/ InsertBudgetCategory(AlertNames, AlertBudgets, AlertSpents)
    \/ InsertReport(ReportTypes, ReportDues, ReportStatuses)
    \/ InsertDeliverable(DeliverableNames, DeliverableDues, DeliverableStatuses)
    \/ Tick
    \/ load_compliance_alerts

SpecAlerts == Init(AlertTies) /\ [][NextAlerts]_vars

-----------------------------------------------------------------------------
(* Outcome performance: grants and their outcome metrics *)

MetricNames == {"Students Enrolled"}
Targets == {-7520, 0, 7520, 20000}
Currents == {5640, 15000, 19900, 19999, 20000}

(* The metrics whose percentage lies at a tie, with an operand that is not *)
(* exact in binary (199.99 of 200.00 is 99.995 percent).                   *)
OutcomeTies ==
    {c \in {Computation("achievement_percentage", <<cv, t>>) :
                cv \in Currents, t \in Targets} :
        AtTie(c[2][1], c[2][2]) /\ Inexact(c)}

NextOutcome ==
    \/ InsertGrant(AlertAmounts, AlertEnds)
    \/ InsertOutcomeMetric(MetricNames, Targets, Currents)
    \/ load_outcome_performance

SpecOutcome == Init(OutcomeTies) /\ [][NextOutcome]_vars

-----------------------------------------------------------------------------
(* The data generator: a run of the script, one call or one loop iteration *)
(* per step, then reads of the alerts.  generate_participants and          *)
(* generate_staff_allocations write tables that no view reads; they are    *)
(* not followed.                                                           *)

GenGrants == 1      \* n of generate_grants(n): the grants one run generates

DaysBack == 365             \* base_date = now - 365 days
DaysPerMonth == 30          \* end_date = start_date + duration_months * 30 days
DeliverableGraceDays == 30  \* due_date < now - 30 days: Completed or Late
ReportGraceDays == 15       \* due_date < now - 15 days: Submitted
QuarterDays == 90
HalfYearDays == 180
YearDays == 365
MinReports == 2
MaxReports == 12
ExpensesPerGrant == 50      \* generate_expenses(..., n_per_grant=50)
MinExpense == 100           \* random.uniform(100, max_amount), in dollars
MaxExpenses == 2    \* the expenses of a run that the budget draws follow

categories ==
    <<"Personnel Salaries", "Fringe Benefits", "Program Supplies", "Equipment",
      "Travel", "Consultants", "Facilities", "Indirect Costs">>

(* metrics_by_purpose.get(purpose, default_metrics): name and unit. *)
default_metrics ==
    <<<<"Program Participants", "Individuals">>, <<"Program Activities", "Events">>,
      <<"Community Reach", "People">>, <<"Satisfaction Rate", "Percentage">>>>

metrics_by_purpose(purpose) ==
    CASE purpose = "Youth Education Programs" ->
            <<<<"Students Enrolled", "Participants">>,
              <<"Program Completion Rate", "Percentage">>,
              <<"Average Grade Improvement", "Points">>,
              <<"Parent Satisfaction Score", "Rating">>>>
      [] purpose = "Healthcare Access" ->
            <<<<"Patients Served", "Individuals">>,
              <<"Services Provided", "Sessions">>,
              <<"Preventive Care Visits", "Visits">>,
              <<"Patient Satisfaction", "Rating">>>>
      [] purpose = "Food Security Initiatives" ->
            <<<<"Meals Distributed", "Meals">>,
              <<"Families Served", "Households">>,
              <<"Food Bank Visits", "Visits">>,
              <<"Pounds of Food Distributed", "Pounds">>>>
      [] purpose = "Mental Health Services" ->
            <<<<"Clients Served", "Individuals">>,
              <<"Counseling Sessions", "Sessions">>,
              <<"Crisis Interventions", "Interventions">>,
              <<"Client Improvement Rate", "Percentage">>>>
      [] purpose = "Job Training and Placement" ->
            <<<<"Trainees Enrolled", "Participants">>,
              <<"Certifications Earned", "Certificates">>,
              <<"Job Placements", "Placements">>,
              <<"Average Wage Increase", "Dollars">>>>
      [] OTHER -> default_metrics

(* The values of the random draws that the model follows: of a whole run,  *)
(* and of the budget and its expenses alone.  Amounts and targets count    *)
(* hundredths, percentages whole percent, the expense factor tenths and    *)
(* the place of a draw in its interval hundredths.                         *)
GenIds == <<"GR001", "GR002", "GR003", "GR004", "GR005">>
GenClocks == {11520, 17280}     \* 19:12 and, the day after, 04:48 UTC
Zones == {-3600, 0, 3600}       \* six hours behind UTC, UTC, six hours ahead
StartOffsets == {5, 28}
DurationMonths == {18}
GenAmounts == {5000000}
GenStatuses == {"Active"}
Frequencies == {"Quarterly", "Annual"}
Purposes == {"Healthcare Access"}
GenPersonnel == {40, 50}
GenFringe == {15}
GenOther == {8}
DeliverableCounts == {8}
OldCompletionOffsets == {10}
RecentCompletionOffsets == {5}
OldSubmissionOffsets == {-5}
RecentSubmissionOffsets == {0, 5}

BudgetTotals == {5000001, 5000010}
BudgetStatuses == {"Active", "Completed"}
BudgetOffsets == {5}
BudgetMonths == {12}
PersonnelPercents == {40, 50}
FringePercents == {15, 20}
IndirectPercents == {8, 12}
OtherPercents == {3, 10}
CompletedSpent == {90}
ActiveVariance == {115}
ExpenseFactors == {20}
ExpenseFractions == {0, 99}
GenFractions == {99}
LastCategory == {8}

PercentageTargets == {8000}
RatingTargets == {450}
HeadTargets == {20000}
CountTargets == {50000}
PercentageFactors == {110}
RatingFactors == {85}
HeadFactors == {50}
CountFactors == {60}

GenDraws ==
    [offsets |-> StartOffsets, months |-> DurationMonths, amounts |-> GenAmounts,
     statuses |-> GenStatuses, frequencies |-> Frequencies, purposes |-> Purposes,
     personnel |-> GenPersonnel, fringe |-> GenFringe, indirect |-> IndirectPercents,
     other |-> GenOther, completed |-> CompletedSpent, variance |-> ActiveVariance,
     picks |-> LastCategory, factors |-> ExpenseFactors, fractions |-> GenFractions,
     expenses |-> ExpensesPerGrant * GenGrants]

BudgetDraws ==
    [offsets |-> BudgetOffsets, months |-> BudgetMonths, amounts |-> BudgetTotals,
     statuses |-> BudgetStatuses, frequencies |-> {"Annual"}, purposes |-> Purposes,
     personnel |-> PersonnelPercents, fringe |-> FringePercents,
     indirect |-> IndirectPercents, other |-> OtherPercents,
     completed |-> CompletedSpent, variance |-> ActiveVariance,
     picks |-> DOMAIN categories, factors |-> ExpenseFactors,
     fractions |-> ExpenseFractions, expenses |-> MaxExpenses]

(* datetime.now(): the naive local time; .date() is its day. *)
LocalNow == now + tz
DateOf(t) == t \div DayParts

(* strptime(date, '%Y-%m-%d'): midnight, local, of the day. *)
Midnight(date) == DayParts * date

GrantAt(k) == CHOOSE g \in grants : g.grant_id = GenIds[k]

(* int(duration * (i / n)): the quotient i / n is a float, and for tenths  *)
(* the product can fall just below the exact integer (360 * (7 / 10) is    *)
(* 251.99999999999997).                                                    *)
DeliverableDueOffset(duration, i, n) ==
    IF n = 10 /\ i = 7 /\ duration \in {360, 720}
    THEN (duration * i) \div n - 1
    ELSE (duration * i) \div n

(* int(days * ((i + 1) / n_reports)) *)
ReportDueOffset(days, i, n) == (days * (i + 1)) \div n

Min(a, b) == IF a < b THEN a ELSE b
Max(a, b) == IF a > b THEN a ELSE b

(* n_reports = max(2, min(int(days / period), 12)) *)
ReportCount(g) ==
    LET days == g.end_date - g.start_date
        period == IF g.reporting_frequency = "Quarterly" THEN QuarterDays
                  ELSE IF g.reporting_frequency = "Semi-Annual" THEN HalfYearDays
                  ELSE YearDays
    IN  Max(MinReports, Min(days \div period, MaxReports))

(* The status and completion date generate_deliverables may give to a      *)
(* deliverable due on due_date.                                            *)
DeliverableOutcomes(due_date) ==
    IF Midnight(due_date) < LocalNow - DayParts * DeliverableGraceDays
    THEN {<<st, Some(due_date + o)>> :
            st \in {"Completed", "Late"}, o \in OldCompletionOffsets}
    ELSE IF Midnight(due_date) < LocalNow
    THEN {<<"Completed", Some(due_date + o)>> : o \in RecentCompletionOffsets}
            \cup {<<"In Progress", NULL>>, <<"Overdue", NULL>>}
    ELSE {<<"Not Started", NULL>>, <<"In Progress", NULL>>}

(* The status and submission date generate_reports may give to a report    *)
(* due on due_date.                                                        *)
ReportOutcomes(due_date) ==
    IF Midnight(due_date) < LocalNow - DayParts * ReportGraceDays
    THEN {<<"Submitted", Some(due_date + o)>> : o \in OldSubmissionOffsets}
    ELSE IF Midnight(due_date) < LocalNow
    THEN {<<"Submitted", Some(due_date + o)>> : o \in RecentSubmissionOffsets}
            \cup {<<"In Progress", NULL>>, <<"Overdue", NULL>>}
    ELSE {<<"Not Started", NULL>>}

(* Where the run stands: the call that comes next, and inside a loop the   *)
(* grant and the item it has come to.                                      *)
At(pc) == [pc |-> pc, grant |-> 1, item |-> 0, count |-> 0]

(* The script has not started. *)
Start == [pc |-> "start", grant |-> 0, item |-> 0, count |-> 0]

(* The positions at which the loop over a grant's items starts. *)
EnterDeliverables(k) ==
    {[pc |-> "deliverables", grant |-> k, item |-> 0, count |-> n] :
        n \in DeliverableCounts}

EnterReports(k, g) ==
    {[pc |-> "reports", grant |-> k, item |-> 0, count |-> ReportCount(g)]}

Done == [pc |-> "done", grant |-> 0, item |-> 0, count |-> 0]

(* to_sql's INSERT met a grant_id that is in the table: sqlite3 raises     *)
(* IntegrityError (UNIQUE constraint failed: grants.grant_id), nothing is  *)
(* written and the script ends.                                            *)
Crashed == [pc |-> "IntegrityError", grant |-> 0, item |-> 0, count |-> 0]

(* generator = NonprofitDataGenerator(): sqlite3.connect('nonprofit_grants *)
(* .db') opens the store in the working directory and makes the file if it *)
(* is not there.                                                           *)
NonprofitDataGenerator ==
    /\ gen.pc = "start"
    /\ app' = [app EXCEPT !.files[DefaultStore] =
                  IF @ = Absent THEN Empty ELSE @]
    /\ gen' = At("create_tables")
    /\ UNCHANGED <<tables, now, tz, lowTies, result, seeded, budget>>

(* create_tables, one of its statements: CREATE TABLE IF NOT EXISTS for    *)
(* the next table of the list, which leaves a table that is there as it    *)
(* is; generate_grants follows the last.                                   *)
create_tables ==
    /\ gen.pc = "create_tables"
    /\ app' = [app EXCEPT !.files[DefaultStore].tables =
                  IF @ < gen.item + 1 THEN gen.item + 1 ELSE @]
    /\ gen' = IF gen.item + 1 < Len(TableNames)
              THEN [gen EXCEPT !.item = gen.item + 1]
              ELSE At("grants")
    /\ UNCHANGED <<tables, now, tz, lowTies, result, seeded, budget>>

(* The row generate_grants writes for these draws. *)
GeneratedGrant(id, off, months, a, st, f, purpose) ==
    LET start == DateOf(LocalNow - DayParts * DaysBack + DayParts * off)
        end   == DateOf(Midnight(start) + DayParts * months * DaysPerMonth)
    IN  GrantRow(id, a, start, end, st, f, purpose)

(* generate_grants, one iteration of its loop; the rows go to the table in *)
(* one INSERT, which fails as a whole on a grant_id that is there already. *)
generate_grants(d) ==
    /\ gen.pc = "grants"
    /\ IF HasGrant(GenIds[gen.grant])
       THEN /\ gen' = Crashed
            /\ UNCHANGED grants
       ELSE /\ \E off \in d.offsets, months \in d.months, a \in d.amounts,
                  st \in d.statuses, f \in d.frequencies, purpose \in d.purposes :
                  grants' = grants \cup
                      {GeneratedGrant(GenIds[gen.grant], off, months, a, st, f, purpose)}
            /\ gen' = IF gen.grant < GenGrants
                      THEN [gen EXCEPT !.grant = gen.grant + 1]
                      ELSE At("budget_categories")
    /\ result' = NoResult
    /\ UNCHANGED <<budget_categories, reports, deliverables, outcome_metrics, now, tz, lowTies, app, seeded, expenses, budget>>

(* round(x, 2) of a float: the nearest cent; a value that lies halfway     *)
(* between two cents in decimal is not halfway in binary, and goes to      *)
(* either of them.                                                         *)
PyRound(x) ==
    IF 2 * x.r < x.d THEN {x.q}
    ELSE IF 2 * x.r > x.d THEN {x.q + 1}
    ELSE {x.q, x.q + 1}

(* percentage = random.uniform(...), by category, in percent.  'Indirect   *)
(* Costs' is the last category and gets the remainder instead.             *)
Percentages(d, category) ==
    CASE category = "Personnel Salaries" -> d.personnel
      [] category = "Fringe Benefits" -> d.fringe
      [] category = "Indirect Costs" -> d.indirect
      [] OTHER -> d.other

(* A variant that gives the last category nothing. *)
CategoryAmountWithoutRest(idx, total, remaining, percentage) ==
    IF idx = Len(categories) - 1 THEN 0 ELSE total * percentage

(* amount = remaining for the last category, total * percentage otherwise. *)
(* total is in cents and percentage in percent: the amount is in           *)
(* hundredths of a cent.                                                   *)
CategoryAmount(idx, total, remaining, percentage) ==
    IF idx = Len(categories) - 1 THEN remaining ELSE total * percentage

(* spent_pct as a fraction num / den: uniform(0.90, 1.00) for a Completed  *)
(* grant, otherwise min(days_elapsed / total_days, 1.0) times              *)
(* uniform(0.85, 1.15).                                                    *)
SpentShares(d, g) ==
    LET days_elapsed == (LocalNow - Midnight(g.start_date)) \div DayParts
        total_days   == g.end_date - g.start_date
    IN  IF g.status = "Completed"
        THEN {[num |-> s, den |-> 100] : s \in d.completed}
        ELSE IF total_days <= 0 THEN {[num |-> 0, den |-> 1]}
        ELSE IF days_elapsed >= total_days
        THEN {[num |-> v, den |-> 100] : v \in d.variance}
        ELSE {[num |-> days_elapsed * v, den |-> total_days * 100] :
                v \in d.variance}

(* round(amount * num / den, 2) for an amount in hundredths of a cent, of  *)
(* either sign: the nearest cent to the magnitude, with the sign.          *)
RoundedShare(amount, num, den) ==
    IF amount >= 0 THEN PyRound(MulDiv(amount, num, 100 * den))
    ELSE {-c : c \in PyRound(MulDiv(-amount, num, 100 * den))}

BudgetCategoryRow(id, name, budgeted, spent) ==
    [grant_id |-> id, category_name |-> name,
     budgeted_amount |-> budgeted, spent_amount |-> spent]

(* generate_budget_categories, one iteration of its inner loop. *)
generate_budget_categories(d) ==
    /\ gen.pc = "budget_categories"
    /\ LET g     == GrantAt(gen.grant)
           idx   == gen.item
           total == g.total_amount
           remaining == IF idx = 0 THEN 100 * total ELSE budget.remaining
           last  == idx = Len(categories) - 1
       IN  \E percentage \in (IF last THEN {0} ELSE Percentages(d, categories[idx + 1])),
              share \in SpentShares(d, g) :
              LET amount == CategoryAmount(idx, total, remaining, percentage)
              IN  /\ \E budgeted \in RoundedShare(amount, 1, 1),
                        spent \in RoundedShare(amount, share.num, share.den) :
                        budget_categories' = Append(budget_categories,
                            BudgetCategoryRow(g.grant_id, categories[idx + 1],
                                              budgeted, spent))
                  /\ budget' = [remaining |-> IF last THEN remaining
                                              ELSE remaining - amount,
                                amounts |-> Append(IF idx = 0 THEN <<>>
                                                   ELSE budget.amounts, amount)]
                  /\ gen' = IF ~last THEN [gen EXCEPT !.item = idx + 1]
                            ELSE IF gen.grant < GenGrants
                            THEN [gen EXCEPT !.grant = gen.grant + 1, !.item = 0]
                            ELSE At("expenses")
    /\ result' = NoResult
    /\ UNCHANGED <<grants, reports, deliverables, outcome_metrics, expenses,
                   now, tz, lowTies, app, seeded>>

ExpenseRow(id, category_id, amount) ==
    [grant_id |-> id, category_id |-> category_id, amount |-> amount]

(* grant_cats: the places in budget_cats of the categories of this grant;  *)
(* category_id BCnnnn numbers the places.                                  *)
GrantCats(id) == {c \in DOMAIN budget_categories : budget_categories[c].grant_id = id}

(* The k-th of the places in cats, in their order. *)
RECURSIVE Nth(_, _)
Nth(cats, k) ==
    LET first == CHOOSE c \in cats : \A x \in cats : c <= x
    IN  IF k = 1 THEN first ELSE Nth(cats \ {first}, k - 1)

(* round(random.uniform(100, max_amount), 2) with max_amount =              *)
(* budgeted_amount / n_per_grant * random.uniform(0.5, 2.0): the draw is    *)
(* 100 + (max_amount - 100) * fraction.  factor is in tenths.               *)
ExpenseAmounts(budgeted_amount, factor, fraction) ==
    LET x == MulDiv(budgeted_amount, factor * fraction, ExpensesPerGrant * 10 * 100)
    IN  PyRound([x EXCEPT !.q = x.q + MinExpense * (100 - fraction)])

(* generate_expenses, one iteration of its inner loop. *)
generate_expenses(d) ==
    /\ gen.pc = "expenses"
    /\ Len(expenses) < d.expenses
    /\ LET g == GrantAt(gen.grant)
       IN  \E k \in d.picks, factor \in d.factors, fraction \in d.fractions :
              LET c == Nth(GrantCats(g.grant_id), k)
              IN  \E amount \in ExpenseAmounts(budget_categories[c].budgeted_amount,
                                               factor, fraction) :
                      expenses' = Append(expenses, ExpenseRow(g.grant_id, c, amount))
    /\ gen' \in IF gen.item + 1 < ExpensesPerGrant
                THEN {[gen EXCEPT !.item = gen.item + 1]}
                ELSE IF gen.grant < GenGrants
                THEN {[gen EXCEPT !.grant = gen.grant + 1, !.item = 0]}
                ELSE EnterDeliverables(1)
    /\ result' = NoResult
    /\ UNCHANGED <<grants, budget_categories, reports, deliverables, outcome_metrics,
                   now, tz, lowTies, app, seeded, budget>>

(* generate_deliverables, one iteration of its inner loop. *)
generate_deliverables ==
    /\ gen.pc = "deliverables"
    /\ LET g        == GrantAt(gen.grant)
           duration == g.end_date - g.start_date
           due_date == g.start_date
                          + DeliverableDueOffset(duration, gen.item, gen.count)
       IN  \E o \in DeliverableOutcomes(due_date), name \in DeliverableNames :
              deliverables' = Append(deliverables,
                  DeliverableRow(g.grant_id, name, due_date, o[1], o[2]))
    /\ IF gen.item + 1 < gen.count
       THEN gen' = [gen EXCEPT !.item = gen.item + 1]
       ELSE IF gen.grant < GenGrants
       THEN gen' \in EnterDeliverables(gen.grant + 1)
       ELSE gen' = At("outcome_metrics")
    /\ result' = NoResult
    /\ UNCHANGED <<grants, budget_categories, reports, outcome_metrics, now, tz, lowTies, app, seeded, expenses, budget>>

(* target and the factor of current = target * random.uniform(...), by the *)
(* unit of the metric: targets in hundredths, factors in percent.          *)
MetricDraws(unit) ==
    IF unit = "Percentage" THEN PercentageTargets \X PercentageFactors
    ELSE IF unit = "Rating" THEN RatingTargets \X RatingFactors
    ELSE IF unit \in {"Participants", "Individuals"} THEN HeadTargets \X HeadFactors
    ELSE CountTargets \X CountFactors

(* generate_outcome_metrics, one iteration of its inner loop. *)
generate_outcome_metrics ==
    /\ gen.pc = "outcome_metrics"
    /\ LET g           == GrantAt(gen.grant)
           metric_list == metrics_by_purpose(g.purpose)
           metric      == metric_list[gen.item + 1]
       IN  /\ \E draw \in MetricDraws(metric[2]) :
                 \E current \in PyRound(MulDiv(draw[1], draw[2], 100)) :
                    outcome_metrics' = Append(outcome_metrics,
                        MetricRow(g.grant_id, metric[1], draw[1], current))
           /\ gen' \in IF gen.item + 1 < Len(metric_list)
                       THEN {[gen EXCEPT !.item = gen.item + 1]}
                       ELSE IF gen.grant < GenGrants
                       THEN {[gen EXCEPT !.grant = gen.grant + 1, !.item = 0]}
                       ELSE EnterReports(1, GrantAt(1))
    /\ result' = NoResult
    /\ UNCHANGED <<grants, budget_categories, reports, deliverables, expenses,
                   now, tz, lowTies, app, seeded, budget>>

(* generate_reports, one iteration of its inner loop. *)
generate_reports ==
    /\ gen.pc = "reports"
    /\ LET g        == GrantAt(gen.grant)
           days     == g.end_date - g.start_date
           due_date == g.start_date + ReportDueOffset(days, gen.item, gen.count)
       IN  \E o \in ReportOutcomes(due_date), type \in ReportTypes :
              reports' = Append(reports,
                  ReportRow(g.grant_id, type, due_date, o[2], o[1]))
    /\ IF gen.item + 1 < gen.count
       THEN gen' = [gen EXCEPT !.item = gen.item + 1]
       ELSE IF gen.grant < GenGrants
       THEN gen' \in EnterReports(gen.grant + 1, GrantAt(gen.grant + 1))
       ELSE gen' = At("create_views")
    /\ result' = NoResult
    /\ UNCHANGED <<grants, budget_categories, deliverables, outcome_metrics, now, tz, lowTies, app, seeded, expenses, budget>>

(* create_views, one of its statements: CREATE VIEW IF NOT EXISTS for the  *)
(* next view of the list; the script ends after the last.                  *)
create_views ==
    /\ gen.pc = "create_views"
    /\ app' = [app EXCEPT !.files[DefaultStore].views =
                  IF @ < gen.item + 1 THEN gen.item + 1 ELSE @]
    /\ gen' = IF gen.item + 1 < Len(ViewNames)
              THEN [gen EXCEPT !.item = gen.item + 1]
              ELSE Done
    /\ UNCHANGED <<tables, now, tz, lowTies, result, seeded, budget>>

(* After the run: time passes and the dashboard reads the alerts. *)
TickAfterRun == gen.pc = "done" /\ Tick

ReadAlertsAfterRun == gen.pc = "done" /\ load_compliance_alerts

(* Before the script starts, in a working directory without a store. *)
InitGen ==
    /\ grants = {}
    /\ budget_categories = <<>>
    /\ reports = <<>>
    /\ deliverables = <<>>
    /\ outcome_metrics = <<>>
    /\ now \in GenClocks
    /\ tz \in Zones
    /\ lowTies = {}
    /\ gen = Start
    /\ result = NoResult
    /\ app = AppStart(NoFiles)
    /\ seeded = Unseeded
    /\ expenses = <<>>
    /\ budget = NoBudget

NextGen ==
    \/ NonprofitDataGenerator
    \/ create_tables
    \/ generate_grants(GenDraws)
    \/ generate_budget_categories(GenDraws)
    \/ generate_expenses(GenDraws)
    \/ generate_deliverables
    \/ generate_outcome_metrics
    \/ generate_reports
    \/ create_views
    \/ TickAfterRun
    \/ ReadAlertsAfterRun

SpecGen == InitGen /\ [][NextGen]_vars

-----------------------------------------------------------------------------
(* Two runs of the script under the same seed.  random.seed(42) fixes the  *)
(* values the draws of generate_grants return, the same in every run;      *)
(* datetime.now() is read anew in each run.                                *)

SeedDraws ==
    [off : StartOffsets, months : DurationMonths, amount : GenAmounts,
     status : GenStatuses, frequency : Frequencies, purpose : Purposes]

(* generate_grants, one iteration, with the draws the seed fixes. *)
seeded_generate_grants ==
    LET s == seeded.draws[IF gen.grant \in DOMAIN seeded.draws THEN gen.grant ELSE 1]
    IN  generate_grants([GenDraws EXCEPT !.offsets = {s.off}, !.months = {s.months},
                                         !.amounts = {s.amount}, !.statuses = {s.status},
                                         !.frequencies = {s.frequency},
                                         !.purposes = {s.purpose}])

(* The script is started a second time in the same working directory: the  *)
(* store of the first run is there, with its rows.                         *)
RunAgain ==
    /\ gen.pc = "done"
    /\ IsNull(seeded.first)
    /\ seeded' = [seeded EXCEPT !.first = Some(grants)]
    /\ gen' = Start
    /\ result' = NoResult
    /\ UNCHANGED <<tables, now, tz, lowTies, app, budget>>

(* The script is started a second time after the store of the first run    *)
(* was moved away: the working directory has no store, and the first run's *)
(* grants are kept for comparison.                                         *)
NewRun ==
    /\ gen.pc = "done"
    /\ IsNull(seeded.first)
    /\ seeded' = [seeded EXCEPT !.first = Some(grants)]
    /\ grants' = {}
    /\ budget_categories' = <<>>
    /\ reports' = <<>>
    /\ deliverables' = <<>>
    /\ outcome_metrics' = <<>>
    /\ expenses' = <<>>
    /\ app' = [app EXCEPT !.files[DefaultStore] = Absent]
    /\ gen' = Start
    /\ result' = NoResult
    /\ UNCHANGED <<now, tz, lowTies, budget>>

(* Time passes before the second run starts. *)
RunLater ==
    /\ gen.pc = "start"
    /\ ~IsNull(seeded.first)
    /\ Tick

InitSeed ==
    /\ grants = {}
    /\ budget_categories = <<>>
    /\ reports = <<>>
    /\ deliverables = <<>>
    /\ outcome_metrics = <<>>
    /\ now \in GenClocks
    /\ tz \in Zones
    /\ lowTies = {}
    /\ gen = Start
    /\ result = NoResult
    /\ app = AppStart(NoFiles)
    /\ seeded \in {[draws |-> d, first |-> NULL] : d \in [1..GenGrants -> SeedDraws]}
    /\ expenses = <<>>
    /\ budget = NoBudget

NextSeed ==
    \/ NonprofitDataGenerator
    \/ create_tables
    \/ seeded_generate_grants
    \/ generate_budget_categories(GenDraws)
    \/ generate_expenses(GenDraws)
    \/ generate_deliverables
    \/ generate_outcome_metrics
    \/ generate_reports
    \/ create_views
    \/ RunAgain
    \/ NewRun
    \/ RunLater

SpecSeed == InitSeed /\ [][NextSeed]_vars

-----------------------------------------------------------------------------
(* The start of a run up to the budget categories, and up to the first     *)
(* expenses, with the draws of the budget.                                 *)

InitBudget ==
    /\ grants = {}
    /\ budget_categories = <<>>
    /\ reports = <<>>
    /\ deliverables = <<>>
    /\ outcome_metrics = <<>>
    /\ now = 0
    /\ tz = 0
    /\ lowTies = {}
    /\ gen = Start
    /\ result = NoResult
    /\ app = AppStart(NoFiles)
    /\ seeded = Unseeded
    /\ expenses = <<>>
    /\ budget = NoBudget

NextBudget ==
    \/ NonprofitDataGenerator
    \/ create_tables
    \/ generate_grants(BudgetDraws)
    \/ generate_budget_categories(BudgetDraws)

SpecBudget == InitBudget /\ [][NextBudget]_vars

NextExpenses ==
    \/ NonprofitDataGenerator
    \/ create_tables
    \/ generate_grants(BudgetDraws)
    \/ generate_budget_categories(BudgetDraws)
    \/ generate_expenses(BudgetDraws)

SpecExpenses == InitBudget /\ [][NextExpenses]_vars

-----------------------------------------------------------------------------
(* The dashboard process: get_connection and run_query with their caches *)

(* The files the dashboard may find when it starts: the generator's store  *)
(* missing, just made, in the making with the first of its views, or       *)
(* complete with its views and no rows yet; at the other candidate paths   *)
(* no file or one just made.                                               *)
StartFiles ==
    {f \in [PathIndexes -> {Absent, Empty, Schema(Len(TableNames), 1), Complete}] :
        \A k \in PathIndexes \ {DefaultStore} : f[k] \in {Absent, Empty}}

(* The dashboard started with any of the candidate files in place. *)
InitConn ==
    /\ grants = {}
    /\ budget_categories = <<>>
    /\ reports = <<>>
    /\ deliverables = <<>>
    /\ outcome_metrics = <<>>
    /\ now = 0
    /\ tz = 0
    /\ lowTies = {}
    /\ gen = Idle
    /\ result = NoResult
    /\ app \in {AppStart(f) : f \in StartFiles}
    /\ seeded = Unseeded
    /\ expenses = <<>>
    /\ budget = NoBudget

NextConn ==
    \/ CreateStore
    \/ load_grant_summary
    \/ load_compliance_alerts
    \/ load_outcome_performance
    \/ InsertGrant(AlertAmounts, AlertEnds)
    \/ Tick

SpecConn == InitConn /\ [][NextConn]_vars

(* The dashboard over a store that changes while it runs. *)
CacheStatuses == {"Overdue"}

NextCache ==
    \/ InsertGrant(AlertAmounts, AlertEnds)
    \/ InsertReport(ReportTypes, ReportDues, CacheStatuses)
    \/ load_grant_summary
    \/ load_compliance_alerts
    \/ load_outcome_performance
    \/ Wait

SpecCache == Init({}) /\ [][NextCache]_vars

-----------------------------------------------------------------------------
(* Properties of the grant summary (SpecSummary) *)

SummaryRead == result.query = "v_grant_summary"

(* The last read executed its query on the store; it was not served from   *)
(* the query cache.                                                        *)
Fresh == result.served = "store"

RECURSIVE SpentOfGrant(_, _)
(* The sum of spent_amount over the first n categories that belong to id. *)
SpentOfGrant(id, n) ==
    IF n = 0 THEN 0
    ELSE SpentOfGrant(id, n - 1) +
         (IF budget_categories[n].grant_id = id
          THEN budget_categories[n].spent_amount ELSE 0)

(* C1: in every row load_grant_summary returns, a grant without budget     *)
(* categories included, remaining_budget + total_spent = total_amount.     *)
C1_RemainingPlusSpentIsTotal ==
    SummaryRead =>
        \A i \in DOMAIN result.rows :
            LET r == result.rows[i]
            IN  /\ ~IsNull(r.remaining_budget)
                /\ ~IsNull(r.total_spent)
                /\ Val(r.remaining_budget) + Val(r.total_spent) = r.total_amount

(* C2: every grant has exactly one summary row, and its total_spent is the *)
(* sum of spent_amount over exactly the categories of that grant.          *)
C2_TotalSpentIsOwnCategories ==
    (SummaryRead /\ Fresh) =>
        /\ Len(result.rows) = Cardinality(grants)
        /\ \A g \in grants :
              \E i \in DOMAIN result.rows :
                  /\ result.rows[i].grant_id = g.grant_id
                  /\ result.rows[i].total_spent =
                        Some(SpentOfGrant(g.grant_id, Len(budget_categories)))

(* C5: a grant with total_amount = 0 has spent_percentage = 0: a number,   *)
(* not NULL.                                                               *)
C5_ZeroTotalGivesZeroPercent ==
    SummaryRead =>
        \A i \in DOMAIN result.rows :
            result.rows[i].total_amount = 0 =>
                result.rows[i].spent_percentage = Some(0)

-----------------------------------------------------------------------------
(* Properties of the outcome performance (SpecOutcome) *)

OutcomeRead == result.query = "v_outcome_performance"

ThreeStatuses == {"On Track", "Needs Attention", "At Risk"}

MetricsOfGrants ==
    LET Joined(om) == HasGrant(om.grant_id)
    IN  SelectSeq(outcome_metrics, Joined)

(* C3: every metric of a grant has one row, whose status is On Track if    *)
(* current >= target, otherwise Needs Attention if current >= 0.75 target, *)
(* otherwise At Risk; current = target is On Track, and current exactly at *)
(* three quarters of a larger target is Needs Attention.                   *)
C3_StatusByThresholds ==
    OutcomeRead =>
        /\ Fresh => Len(result.rows) = Len(MetricsOfGrants)
        /\ \A i \in DOMAIN result.rows :
              LET r == result.rows[i]
                  c == r.current_value
                  t == r.target_value
              IN  /\ r.status \in ThreeStatuses
                  /\ c >= t => r.status = "On Track"
                  /\ (c < t /\ 4 * c >= 3 * t) => r.status = "Needs Attention"
                  /\ (c < t /\ 4 * c < 3 * t) => r.status = "At Risk"
                  /\ c = t => r.status = "On Track"
                  /\ (4 * c = 3 * t /\ c < t) => r.status = "Needs Attention"

StatusOfPercentage(a) ==
    IF a >= 100 * Hundredths THEN "On Track"
    ELSE IF a >= 75 * Hundredths THEN "Needs Attention"
    ELSE "At Risk"

(* C4: the status of every row is the one its achievement_percentage       *)
(* gives: >= 100 On Track, [75, 100) Needs Attention, < 75 At Risk; so a   *)
(* row shown as 75.00 is Needs Attention.                                  *)
C4_StatusIsFunctionOfPercentage ==
    OutcomeRead =>
        \A i \in DOMAIN result.rows :
            LET r == result.rows[i]
            IN  /\ ~IsNull(r.achievement_percentage)
                /\ r.status = StatusOfPercentage(Val(r.achievement_percentage))

(* C6: a metric with target_value = 0 has achievement_percentage = 0: a    *)
(* number, not NULL.                                                       *)
C6_ZeroTargetGivesZeroPercent ==
    OutcomeRead =>
        \A i \in DOMAIN result.rows :
            result.rows[i].target_value = 0 =>
                result.rows[i].achievement_percentage = Some(0)

-----------------------------------------------------------------------------
(* Properties of the compliance alerts (SpecAlerts) *)

AlertsRead == result.query = "v_compliance_alerts"

CountOverdue(items) == Len(SelectSeq(items, IsOverdue))

CountOverspent == Len(SelectSeq(budget_categories, IsOverspent))

CountOfType(alerts, type) ==
    LET OfType(a) == a.alert_type = type
    IN  Len(SelectSeq(alerts, OfType))

(* C7: load_compliance_alerts returns as many alerts as there are Overdue  *)
(* reports, Overdue deliverables and overspent categories together.        *)
C7_AlertCountIsSumOfSources ==
    (AlertsRead /\ Fresh) =>
        Len(result.rows) =
            CountOverdue(reports) + CountOverdue(deliverables) + CountOverspent

(* p hundredths is 100 * n / d, d # 0, rounded to two decimals: it is no   *)
(* further than half a hundredth from the quotient.                        *)
IsRounded(p, n, d) ==
    LET x == Scaled(Abs(n), Abs(d))
        m == IF (n < 0) # (d < 0) THEN -p ELSE p
    IN  \/ m = x.q /\ 2 * x.r <= Abs(d)
        \/ m = x.q + 1 /\ 2 * x.r >= Abs(d)

(* C8: every category with spent_amount > budgeted_amount, also one        *)
(* budgeted at 0 or below, has a Budget Overspent alert with its grant_id  *)
(* and category_name and percent_over = round(100*(spent-budgeted)/        *)
(* budgeted, 2), which for a zero budget is 0 by the design's guard of the *)
(* division.                                                               *)
C8_OverspentAlertWithPercentOver ==
    \A i \in DOMAIN budget_categories :
        LET bc == budget_categories[i]
        IN  IsOverspent(bc) =>
              \E k \in DOMAIN v_compliance_alerts :
                  LET a == v_compliance_alerts[k]
                  IN  /\ a.alert_type = "Budget Overspent"
                      /\ a.grant_id = bc.grant_id
                      /\ a.item_name = bc.category_name
                      /\ IsNull(a.due_date)
                      /\ ~IsNull(a.days_overdue)
                      /\ IF bc.budgeted_amount = 0 THEN Val(a.days_overdue) = 0
                         ELSE LET percent_over ==
                                      Val(a.days_overdue) \div (DayParts \div Hundredths)
                              IN  /\ a.days_overdue = InDayParts(Some(percent_over))
                                  /\ IsRounded(percent_over,
                                               bc.spent_amount - bc.budgeted_amount,
                                               bc.budgeted_amount)

(* The whole days in a difference of h DayParts-ths of a day. *)
WholeDays(h) == h \div DayParts

OverdueAlertOf(type, item, name, days) ==
    [alert_type   |-> type,
     grant_id     |-> item.grant_id,
     item_name    |-> name,
     due_date     |-> Some(item.due_date),
     days_overdue |-> Some(days)]

(* C9 as stated: every Overdue report and deliverable yields one alert     *)
(* with its tag, grant_id and name, whose days_overdue is the whole number *)
(* floor(now - due_date).                                                  *)
C9_DaysOverdueIsFloor ==
    /\ CountOfType(v_compliance_alerts, "Overdue Report") = CountOverdue(reports)
    /\ CountOfType(v_compliance_alerts, "Overdue Deliverable") = CountOverdue(deliverables)
    /\ \A i \in DOMAIN reports :
          IsOverdue(reports[i]) =>
              \E k \in DOMAIN v_compliance_alerts :
                  v_compliance_alerts[k] =
                      OverdueAlertOf("Overdue Report", reports[i], reports[i].report_type,
                          DayParts * WholeDays(now - DayParts * reports[i].due_date))
    /\ \A i \in DOMAIN deliverables :
          IsOverdue(deliverables[i]) =>
              \E k \in DOMAIN v_compliance_alerts :
                  v_compliance_alerts[k] =
                      OverdueAlertOf("Overdue Deliverable", deliverables[i],
                          deliverables[i].deliverable_name,
                          DayParts * WholeDays(now - DayParts * deliverables[i].due_date))

(* C9 amended: every Overdue report and deliverable yields one alert with  *)
(* its tag, grant_id and name, whose days_overdue is the elapsed time      *)
(* now - due_date in days with its fraction (the due date taken at 00:00   *)
(* UTC); it is a whole number only when now is at midnight.                *)
C9_DaysOverdueIsElapsedTime ==
    /\ CountOfType(v_compliance_alerts, "Overdue Report") = CountOverdue(reports)
    /\ CountOfType(v_compliance_alerts, "Overdue Deliverable") = CountOverdue(deliverables)
    /\ \A i \in DOMAIN reports :
          IsOverdue(reports[i]) =>
              \E k \in DOMAIN v_compliance_alerts :
                  v_compliance_alerts[k] =
                      OverdueAlertOf("Overdue Report", reports[i], reports[i].report_type,
                          now - DayParts * reports[i].due_date)
    /\ \A i \in DOMAIN deliverables :
          IsOverdue(deliverables[i]) =>
              \E k \in DOMAIN v_compliance_alerts :
                  v_compliance_alerts[k] =
                      OverdueAlertOf("Overdue Deliverable", deliverables[i],
                          deliverables[i].deliverable_name,
                          now - DayParts * deliverables[i].due_date)
    /\ \A k \in DOMAIN v_compliance_alerts :
          v_compliance_alerts[k].alert_type # "Budget Overspent" =>
              (Val(v_compliance_alerts[k].days_overdue) % DayParts = 0
                  <=> now % DayParts = 0)

(* Reached: an Overdue report and an Overdue deliverable, half a day       *)
(* after a due date.                                                       *)
C9_Witness ==
    /\ \E i \in DOMAIN reports :
          /\ IsOverdue(reports[i])
          /\ now - DayParts * reports[i].due_date = 7200
    /\ \E i \in DOMAIN deliverables : IsOverdue(deliverables[i])
    /\ Len(v_compliance_alerts) >= 2

-----------------------------------------------------------------------------
(* Properties of generated data (SpecGen) *)

(* C10: in every alert list read after the generator's run, each Overdue   *)
(* Report and Overdue Deliverable alert has days_overdue >= 0.             *)
C10_GeneratedOverdueNotNegative ==
    (gen.pc = "done" /\ AlertsRead) =>
        \A i \in DOMAIN result.rows :
            result.rows[i].alert_type \in {"Overdue Report", "Overdue Deliverable"}
                => Val(result.rows[i].days_overdue) >= 0

-----------------------------------------------------------------------------
(* Further properties of the three read functions *)

(* C11: in the list load_compliance_alerts returns, every alert has a      *)
(* severity at least as large as that of the alert after it.               *)
C11_SortedBySeverityDescending ==
    AlertsRead =>
        \A i \in 1..(Len(result.rows) - 1) :
            /\ ~IsNull(result.rows[i].days_overdue)
            /\ ~IsNull(result.rows[i + 1].days_overdue)
            /\ Val(result.rows[i].days_overdue) >= Val(result.rows[i + 1].days_overdue)

(* C12: for every grant with total_amount # 0, one without budget          *)
(* categories included, spent_percentage is a number: 100 * total_spent /  *)
(* total_amount rounded to the nearest hundredth, where total_spent is the *)
(* sum over the grant's categories (0 for none); 45000.00 of 100000.00 is  *)
(* 45.00.                                                                  *)
C12_SpentPercentageIsRoundedShare ==
    SummaryRead =>
        \A i \in DOMAIN result.rows :
            LET r == result.rows[i]
                total_spent == IF IsNull(r.total_spent) THEN 0 ELSE Val(r.total_spent)
            IN  r.total_amount # 0 =>
                  /\ ~IsNull(r.spent_percentage)
                  /\ IsRounded(Val(r.spent_percentage), total_spent, r.total_amount)
                  /\ (r.total_amount = 10000000 /\ r.total_spent = Some(4500000))
                        => r.spent_percentage = Some(45 * Hundredths)

(* C13: every outcome metric of the store is in the result of              *)
(* load_outcome_performance, and for target_value # 0 its                  *)
(* achievement_percentage is 100 * current / target rounded to the nearest *)
(* hundredth (target 200: 150 gives 75.00, 199 gives 99.50, 200 gives      *)
(* 100.00).                                                                *)
C13_EveryMetricWithRoundedPercentage ==
    OutcomeRead =>
        /\ Fresh => Len(result.rows) = Len(outcome_metrics)
        /\ \A i \in DOMAIN result.rows :
              LET r == result.rows[i]
              IN  r.target_value # 0 =>
                    /\ ~IsNull(r.achievement_percentage)
                    /\ IsRounded(Val(r.achievement_percentage), r.current_value,
                                 r.target_value)
                    /\ (r.target_value = 20000 /\ r.current_value = 15000)
                          => r.achievement_percentage = Some(7500)
                    /\ (r.target_value = 20000 /\ r.current_value = 19900)
                          => r.achievement_percentage = Some(9950)
                    /\ (r.target_value = 20000 /\ r.current_value = 20000)
                          => r.achievement_percentage = Some(10000)

(* C14 as stated: of two metrics with the same target_value, whatever it   *)
(* is, the one with the smaller current_value has the smaller or equal     *)
(* achievement_percentage.                                                 *)
C14_AchievementMonotoneForAnyTarget ==
    OutcomeRead =>
        \A i, j \in DOMAIN result.rows :
            LET a == result.rows[i]
                b == result.rows[j]
            IN  (a.target_value = b.target_value /\ a.current_value <= b.current_value)
                  => /\ ~IsNull(a.achievement_percentage)
                     /\ ~IsNull(b.achievement_percentage)
                     /\ Val(a.achievement_percentage) <= Val(b.achievement_percentage)

(* C14 amended: with the same target_value > 0 the metric with the smaller *)
(* current_value has the smaller or equal achievement_percentage; with the *)
(* same target_value < 0 it has the larger or equal one; with              *)
(* target_value = 0 the percentage is NULL whatever the current value.     *)
C14_AchievementMonotoneForPositiveTarget ==
    OutcomeRead =>
        \A i, j \in DOMAIN result.rows :
            LET a == result.rows[i]
                b == result.rows[j]
            IN  (a.target_value = b.target_value /\ a.current_value <= b.current_value)
                  => /\ a.target_value > 0 =>
                          /\ ~IsNull(a.achievement_percentage)
                          /\ ~IsNull(b.achievement_percentage)
                          /\ Val(a.achievement_percentage) <= Val(b.achievement_percentage)
                     /\ a.target_value < 0 =>
                          /\ ~IsNull(a.achievement_percentage)
                          /\ ~IsNull(b.achievement_percentage)
                          /\ Val(a.achievement_percentage) >= Val(b.achievement_percentage)
                     /\ a.target_value = 0 =>
                          /\ IsNull(a.achievement_percentage)
                          /\ IsNull(b.achievement_percentage)

(* Reached: a read with two metrics of target 200.00, the one at 150.00    *)
(* with a smaller percentage than the one at 199.00.                       *)
C14_Witness ==
    /\ OutcomeRead
    /\ \E i, j \in DOMAIN result.rows :
          /\ result.rows[i].target_value = 20000
          /\ result.rows[j].target_value = 20000
          /\ result.rows[i].current_value = 15000
          /\ result.rows[j].current_value = 19900
          /\ Val(result.rows[i].achievement_percentage)
                < Val(result.rows[j].achievement_percentage)

(* C15: days_remaining is the signed time from now to the grant's end_date *)
(* (taken at 00:00 UTC): positive before it, negative after it, and        *)
(* strictly smaller whenever the clock has advanced.                       *)
C15_DaysRemainingSignedAndDecreasing ==
    /\ []((SummaryRead /\ Fresh) =>
            \A i \in DOMAIN result.rows :
                LET r == result.rows[i]
                IN  /\ r.days_remaining + now = DayParts * r.end_date
                    /\ r.days_remaining > 0 <=> now < DayParts * r.end_date
                    /\ r.days_remaining < 0 <=> now > DayParts * r.end_date)
    /\ [][now' > now =>
            \A g \in grants :
                \E r \in v_grant_summary :
                    /\ r.grant_id = g.grant_id
                    /\ DaysRemaining(g.end_date)' < r.days_remaining]_vars

(* Reached: a read that returned an expired grant and one still running.   *)
C15_Witness ==
    /\ SummaryRead
    /\ \E i, j \in DOMAIN result.rows :
          /\ result.rows[i].days_remaining < 0
          /\ result.rows[j].days_remaining > 0

(* C16: a read does not return while a record that feeds it references a   *)
(* grant that does not exist: the missing grant is surfaced as a failure   *)
(* instead of the record being left out.                                   *)
C16_MissingGrantSurfaced ==
    /\ (AlertsRead /\ Fresh) =>
          \A k \in DOMAIN v_compliance_alerts : HasGrant(v_compliance_alerts[k].grant_id)
    /\ (OutcomeRead /\ Fresh) =>
          \A i \in DOMAIN outcome_metrics : HasGrant(outcome_metrics[i].grant_id)

-----------------------------------------------------------------------------
(* Properties of the dashboard process (SpecConn, SpecCache) *)

(* A step of a read function: nothing but the frame and the process moves. *)
ReadStep ==
    /\ tables' = tables
    /\ now' = now
    /\ app'.files = app.files
    /\ (result' # result \/ app' # app)

(* C17: while no candidate path holds the store, get_connection fails      *)
(* before any query runs: a read ends in the error, no connection and no   *)
(* cached frame exists.  When a candidate exists, a read opens the         *)
(* connection on the first existing path of the search order, and returns  *)
(* a frame exactly if that file has the view the query selects from.      *)
C17_FirstExistingPathOrError ==
    /\ [](Existing(app.files) = {} =>
            /\ IsNull(app.conn)
            /\ \A q \in Queries : IsNull(app.cache[q])
            /\ result.query \notin Queries)
    /\ [][(Existing(app.files) = {} /\ ReadStep) =>
            /\ result' = Failed
            /\ app'.conn = app.conn
            /\ app'.cache = app.cache]_vars
    /\ [][(Existing(app.files) # {} /\ ReadStep) =>
            /\ ~IsNull(app'.conn)
            /\ result'.query \in Queries =>
                  HasView(app.files[Val(app'.conn)], result'.query)
            /\ result'.query \notin Queries =>
                  /\ result' = NoSuchTable
                  /\ app.files[Val(app'.conn)] # Complete]_vars
    /\ [][\A q \in Queries :
            (Existing(app.files) # {} /\ run_query(q)) =>
                (result'.query = q <=> HasView(app.files[Val(app'.conn)], q))]_vars
    /\ [][(IsNull(app.conn) /\ ~IsNull(app'.conn)) =>
            /\ Val(app'.conn) \in Existing(app.files)
            /\ \A j \in Existing(app.files) : Val(app'.conn) <= j
            /\ PossiblePaths[Val(app'.conn)] \in
                  {PossiblePaths[j] : j \in Existing(app.files)}]_vars

(* Reached: the first two candidates are missing and a query ran on a      *)
(* connection to the third.                                                *)
C17_Witness ==
    /\ Existing(app.files) = {3, 4}
    /\ app.conn = Some(3)
    /\ result.served = "store"
    /\ result.query \in Queries

(* C18: a call of a read function leaves every base table as it was, and a *)
(* call repeated on unchanged data at the same time returns the frame the  *)
(* call before it returned.                                                *)
C18_ReadsArePureAndRepeatable ==
    [][(\E q \in Queries : run_query(q)) =>
          /\ tables' = tables
          /\ (result.query = result'.query => result'.rows = result.rows)]_vars

(* Reached: the alerts were read a second time, with two alerts of the     *)
(* same severity in the store and nothing changed since the first read.    *)
C18_Witness ==
    /\ result.served = "cache"
    /\ result.query = "v_compliance_alerts"
    /\ Len(result.rows) >= 2
    /\ result.rows[1].days_overdue = result.rows[2].days_overdue
    /\ result.rows \in ComplianceAlertsOrdered

(* C19 as stated: the frame a read function returns through the cache is   *)
(* the frame the query gives at that moment without the cache.             *)
C19_CachedReadEqualsUncached ==
    result.query \in Queries => result.rows \in read_sql_query(result.query)

(* C19 amended: the frame a read returns is the one the query gave when it *)
(* was last executed against the store, less than 300 seconds before; a    *)
(* read is served from the cache exactly when the query was executed less  *)
(* than 300 seconds ago, and otherwise executes the query and returns the  *)
(* frame of that moment.                                                   *)
C19_CachedReadIsRecentResult ==
    /\ [](result.query \in Queries =>
            /\ ~IsNull(app.cache[result.query])
            /\ result.rows = Val(app.cache[result.query]).rows
            /\ Val(app.cache[result.query]).at <= now
            /\ Seconds(Val(app.cache[result.query]).at, now) < TtlSeconds
            /\ result.served = "store" =>
                  /\ result.rows \in read_sql_query(result.query)
                  /\ Val(app.cache[result.query]).at = now)
    /\ [][\A q \in Queries :
            run_query(q) =>
                LET recent == /\ ~IsNull(app.cache[q])
                              /\ Seconds(Val(app.cache[q]).at, now) < TtlSeconds
                IN  /\ recent => /\ result'.served = "cache"
                                 /\ result'.rows = Val(app.cache[q]).rows
                                 /\ app'.cache = app.cache
                    /\ ~recent => /\ result'.served = "store"
                                  /\ Val(app'.cache[q]).at = now]_vars
    /\ [][\A q \in Queries :
            (app'.cache[q] # app.cache[q] /\ ~IsNull(app'.cache[q])) =>
                /\ Val(app'.cache[q]).at = now
                /\ Val(app'.cache[q]).rows \in read_sql_query(q)
                /\ result' = [query |-> q, rows |-> Val(app'.cache[q]).rows,
                              served |-> "store"]
                /\ tables' = tables
                /\ now' = now]_vars

(* Reached: a read served from the cache 288 seconds after the query was   *)
(* executed, the store changed in between: the frame lacks an alert that   *)
(* the query would return now.                                             *)
C19_Witness ==
    /\ result.served = "cache"
    /\ result.query = "v_compliance_alerts"
    /\ Seconds(Val(app.cache[result.query]).at, now) = 288
    /\ result.rows \notin ComplianceAlertsOrdered
    /\ \E s \in ComplianceAlertsOrdered : Len(s) > Len(result.rows)

-----------------------------------------------------------------------------
(* Properties of two seeded runs (SpecSeed) *)

(* C20: when the second of two runs under the same seed has ended, the     *)
(* grants table of its store has the contents the first run's had,         *)
(* whenever the two runs were started.                                     *)
C20_SameSeedSameGrants ==
    (gen.pc \in {"done", "IntegrityError"} /\ ~IsNull(seeded.first))
        => grants = Val(seeded.first)

-----------------------------------------------------------------------------
(* Properties of the alert kinds (SpecAlerts) and of the generated dates   *)
(* (SpecGen)                                                               *)

AlertTypes == {"Overdue Report", "Overdue Deliverable", "Budget Overspent"}

(* C24: in the list load_compliance_alerts returns, alert_type is one of   *)
(* the three tags, due_date is NULL exactly for 'Budget Overspent', and    *)
(* the overview's line shows 'Days Overdue' exactly for the two overdue    *)
(* types and 'Amount Over' exactly for 'Budget Overspent'.                 *)
C24_DueDateTellsAlertKind ==
    AlertsRead =>
        \A i \in DOMAIN result.rows :
            LET a == result.rows[i]
                Shows(label) == \E k \in DOMAIN OverviewLine(a).labels :
                                    OverviewLine(a).labels[k] = label
            IN  /\ a.alert_type \in AlertTypes
                /\ IsNull(a.due_date) <=> a.alert_type = "Budget Overspent"
                /\ Shows("Amount Over: ") <=> a.alert_type = "Budget Overspent"
                /\ Shows("Days Overdue: ") <=>
                      a.alert_type \in {"Overdue Report", "Overdue Deliverable"}

(* C26: a generated deliverable has a completion_date exactly when it is   *)
(* Completed or Late, a generated report has a submission_date exactly     *)
(* when it is Submitted, and none of these dates is after the day of the   *)
(* generation.                                                             *)
C26_DatesMatchStatusAndNotInFuture ==
    /\ \A i \in DOMAIN deliverables :
          /\ ~IsNull(deliverables[i].completion_date)
                <=> deliverables[i].status \in {"Completed", "Late"}
          /\ ~IsNull(deliverables[i].completion_date)
                => Val(deliverables[i].completion_date) <= DateOf(LocalNow)
    /\ \A i \in DOMAIN reports :
          /\ ~IsNull(reports[i].submission_date) <=> reports[i].status = "Submitted"
          /\ ~IsNull(reports[i].submission_date)
                => Val(reports[i].submission_date) <= DateOf(LocalNow)

-----------------------------------------------------------------------------
(* Properties of the generated budget (SpecBudget, SpecExpenses) *)

(* The categories written for the k-th grant. *)
CategoriesOf(k) ==
    LET Own(bc) == bc.grant_id = GenIds[k]
    IN  SelectSeq(budget_categories, Own)

(* generate_budget_categories is through with the k-th grant. *)
BudgetWritten(k) ==
    \/ gen.pc = "budget_categories" /\ gen.grant > k
    \/ gen.pc \notin {"start", "create_tables", "grants", "budget_categories"}

StatusOfGrant(id) == (CHOOSE g \in grants : g.grant_id = id).status

(* C21: every grant gets exactly the eight categories; their amounts       *)
(* before rounding sum exactly to total_amount, the last one being what    *)
(* the first seven leave; each stored amount is within half a cent of the  *)
(* amount before rounding, so the stored sum is within eight half cents of *)
(* total_amount.                                                           *)
C21_EightCategoriesSumToTotal ==
    /\ \A k \in 1..GenGrants :
          LET rows == CategoriesOf(k)
              budgeted == [i \in 1..Len(rows) |-> rows[i].budgeted_amount]
          IN  /\ Len(rows) <= Len(categories)
              /\ BudgetWritten(k) =>
                    /\ [i \in 1..Len(rows) |-> rows[i].category_name] = categories
                    /\ 2 * Abs(SumSeq(budgeted) - GrantAt(k).total_amount)
                          <= Len(categories)
    /\ Len(budget.amounts) = Len(categories) =>
          LET n == Len(budget_categories)
              g == CHOOSE x \in grants : x.grant_id = budget_categories[n].grant_id
          IN  /\ SumSeq(budget.amounts) = 100 * g.total_amount
              /\ budget.amounts[Len(categories)] = budget.remaining
              /\ \A i \in 1..Len(categories) :
                    2 * Abs(100 * budget_categories[n - Len(categories) + i].budgeted_amount
                              - budget.amounts[i]) <= 100

(* Reached: every grant has its categories, and the stored amounts of one  *)
(* grant do not sum to its total_amount to the cent.                       *)
C21_Witness ==
    /\ \A k \in 1..GenGrants : BudgetWritten(k)
    /\ Len(budget.amounts) = Len(categories)
    /\ \E k \in 1..GenGrants :
          LET rows == CategoriesOf(k)
          IN  SumSeq([i \in 1..Len(rows) |-> rows[i].budgeted_amount])
                 # GrantAt(k).total_amount

(* C22: every generated expense has amount > 0 and names a budget category *)
(* of its own grant.                                                       *)
C22_ExpensePositiveInOwnCategory ==
    \A i \in DOMAIN expenses :
        /\ expenses[i].amount > 0
        /\ expenses[i].category_id \in DOMAIN budget_categories
        /\ budget_categories[expenses[i].category_id].grant_id = expenses[i].grant_id

(* C23: every generated budget category has budgeted_amount >= 0 and       *)
(* spent_amount >= 0.                                                      *)
C23_BudgetAmountsNotNegative ==
    \A i \in DOMAIN budget_categories :
        /\ budget_categories[i].budgeted_amount >= 0
        /\ budget_categories[i].spent_amount >= 0

(* C25: no generated category of a Completed grant has spent_amount above  *)
(* budgeted_amount, so a category that raises a Budget Overspent alert     *)
(* belongs to an Active grant.                                             *)
C25_CompletedNeverOverspent ==
    \A i \in DOMAIN budget_categories :
        /\ StatusOfGrant(budget_categories[i].grant_id) = "Completed"
              => budget_categories[i].spent_amount <= budget_categories[i].budgeted_amount
        /\ IsOverspent(budget_categories[i])
              => StatusOfGrant(budget_categories[i].grant_id) = "Active"

====
